---- MODULE Spec2Model ----
(***************************************************************************)
(* Order lifecycle state machine of design_patterns/behavioural/state.py.  *)
(*                                                                         *)
(* State objects live in `heap`: heap[0] holds the object built when the   *)
(* Order class is defined, heap[i] the objects built during calls on order *)
(* i; a reference is <<owner, index>> and the element is the object's      *)
(* class name.  `orders` are the Order instances constructed so far;       *)
(*  `call` is the record of the last completed call on the public   *)
(* surface of Order (constructor, pay, ship, deliver, cancel, status, log) *)
(* with what it printed, returned (`sret` is what the state method gave     *)
(* back to Order) and raised; `transitions` is the history                 *)
(* of the classes handed to Order._set_state, per order.                   *)
(***************************************************************************)
EXTENDS Integers, Sequences, FiniteSets, TLC

VARIABLES heap, orders, transitions, call

\* Callers that run Order operations statement by statement: `threads` holds
\* each caller's position in its call, `commits` every _set_state a caller
\* made with the state it had read first, and `exclusive` says whether a call
\* runs as one uninterrupted step.
VARIABLES threads, exclusive, commits

\* Command pattern (design_patterns/behavioural/command.py): `lamp` is the
\* Light receiver, `invoker` the RemoteInvoker (_history, _queue), `macro` the
\* MacroCommand (_commands), `result` the record of the last completed call
\* with the execute/undo calls it made on commands, `executions` every
\* command the invoker has executed, in order, and `popped` the positions in
\* `executions` that undo_last has already taken.  An entry of _history is
\* the command together with `at`, the position of its execution in
\* `executions`.
VARIABLES lamp, invoker, macro, result, executions, popped

\* Observer pattern (design_patterns/behavioural/observer.py): `ticker` is
\* the StockTicker (symbol, _price, _observers), `notice` the record of the
\* last completed call with the update calls it made on observers and what
\* they printed, and `events` every attach and detach call made so far, in
\* order.
VARIABLES ticker, notice, events

\* Singletons (design_patterns/creational/singleton.py): `Logger` holds the
\* class attributes of Logger (_instance, _lock), `SingletonMeta` those of the
\* metaclass (_instances, _lock), `objects` the instances constructed so far,
\* named by the caller whose call constructed them, `callers` each thread's
\* position in its call with its arguments, locals and result, and `written`
\* the value last given to Cache.set for each key, through any reference.
VARIABLES Logger, SingletonMeta, objects, callers, written

orderVars == <<heap, orders, transitions, call>>

cmdVars == <<lamp, invoker, macro, result, executions, popped>>

concVars == <<threads, exclusive, commits>>

obsVars == <<ticker, notice, events>>

singVars == <<Logger, SingletonMeta, objects, callers, written>>

\* the variables the Order operations never touch
nonOrderVars == <<concVars, cmdVars, obsVars, singVars>>

\* the variables the interleaved callers never touch, beside the Order's
nonConcVars == <<cmdVars, obsVars, singVars>>

\* the variables the command pattern never touches
nonCmdVars == <<orderVars, concVars, obsVars, singVars>>

\* the variables the observer pattern never touches
nonObsVars == <<orderVars, concVars, cmdVars, singVars>>

\* the variables the singletons never touch
nonSingVars == <<orderVars, concVars, cmdVars, obsVars>>

vars == <<orderVars, nonOrderVars>>

\* ------------------------------------------------------------------ bounds
MaxOrders == 2
MaxThreads == 2
MaxExec == 3
MaxQueue == 2
MaxMacro == 3
MaxEvents == 4
MaxCallers == 2

\* ------------------------------------------------------------ input domains
OrderIds == {"A100", "B1"}
LogMessages == {"note"}

\* ---------------------------------------------------------- Python values
None == "None"
NULL == <<>>

\* ------------------------------------------------------ string primitives
Lower == "abcdefghijklmnopqrstuvwxyz"
UpperCase == "ABCDEFGHIJKLMNOPQRSTUVWXYZ"

\* str.upper() on one character
UpperChar(c) ==
    IF \E k \in 1..Len(Lower) : SubSeq(Lower, k, k) = c
    THEN LET k == CHOOSE k \in 1..Len(Lower) : SubSeq(Lower, k, k) = c
         IN SubSeq(UpperCase, k, k)
    ELSE c

RECURSIVE upper(_)
\* str.upper()
upper(s) ==
    IF Len(s) = 0 THEN ""
    ELSE UpperChar(SubSeq(s, 1, 1)) \o upper(SubSeq(s, 2, Len(s)))

StartsWith(s, p) == Len(p) <= Len(s) /\ SubSeq(s, 1, Len(p)) = p

RECURSIVE replace(_, _, _)
\* str.replace(old, new): every non-overlapping occurrence, left to right
replace(s, old, new) ==
    IF Len(s) = 0 THEN ""
    ELSE IF Len(old) > 0 /\ StartsWith(s, old)
         THEN new \o replace(SubSeq(s, Len(old) + 1, Len(s)), old, new)
         ELSE SubSeq(s, 1, 1) \o replace(SubSeq(s, 2, Len(s)), old, new)

\* `sub in s`
Contains(s, sub) ==
    \E k \in 1..(Len(s) - Len(sub) + 1) : SubSeq(s, k, k + Len(sub) - 1) = sub

EndsWith(s, p) ==
    Len(p) <= Len(s) /\ SubSeq(s, Len(s) - Len(p) + 1, Len(s)) = p

\* ----------------------------------------------------------- state classes
\* A method body is the sequence of its statements.
SetState(cls) == [stmt |-> "_set_state", cls |-> cls]
Log(msg) == [stmt |-> "log", msg |-> msg]

\* abstract methods of the state interface
OrderState == {"pay", "ship", "deliver", "cancel"}

\* CreatedState whose pay() announces PAID without calling _set_state
CreatedState_PayForgetsSet ==
    [pay     |-> <<Log("Payment received; state -> PAID")>>,
     ship    |-> <<Log("Cannot ship: payment pending")>>,
     deliver |-> <<Log("Cannot deliver: not shipped")>>,
     cancel  |-> <<SetState("CancelledState"), Log("Order cancelled; state -> CANCELLED")>>]

CreatedState ==
    [pay     |-> <<SetState("PaidState"), Log("Payment received; state -> PAID")>>,
     ship    |-> <<Log("Cannot ship: payment pending")>>,
     deliver |-> <<Log("Cannot deliver: not shipped")>>,
     cancel  |-> <<SetState("CancelledState"), Log("Order cancelled; state -> CANCELLED")>>]

\* PaidState whose ship() skips Shipped and sets Delivered
PaidState_ShipDelivers ==
    [pay     |-> <<Log("Already paid")>>,
     ship    |-> <<SetState("DeliveredState"), Log("Order shipped; state -> SHIPPED")>>,
     deliver |-> <<Log("Cannot deliver: not shipped yet")>>,
     cancel  |-> <<SetState("CancelledState"),
                   Log("Order cancelled; state -> CANCELLED (refund required)")>>]

\* PaidState whose pay() is the body of CreatedState.pay: it transitions again
PaidState_PayAgain ==
    [pay     |-> <<SetState("PaidState"), Log("Payment received; state -> PAID")>>,
     ship    |-> <<SetState("ShippedState"), Log("Order shipped; state -> SHIPPED")>>,
     deliver |-> <<Log("Cannot deliver: not shipped yet")>>,
     cancel  |-> <<SetState("CancelledState"),
                   Log("Order cancelled; state -> CANCELLED (refund required)")>>]

PaidState ==
    [pay     |-> <<Log("Already paid")>>,
     ship    |-> <<SetState("ShippedState"), Log("Order shipped; state -> SHIPPED")>>,
     deliver |-> <<Log("Cannot deliver: not shipped yet")>>,
     cancel  |-> <<SetState("CancelledState"),
                   Log("Order cancelled; state -> CANCELLED (refund required)")>>]

\* ShippedState whose cancel() is still allowed
ShippedState_CancelAllowed ==
    [pay     |-> <<Log("Already paid and shipped")>>,
     ship    |-> <<Log("Already shipped")>>,
     deliver |-> <<SetState("DeliveredState"), Log("Order delivered; state -> DELIVERED")>>,
     cancel  |-> <<SetState("CancelledState"), Log("Order cancelled; state -> CANCELLED")>>]

ShippedState ==
    [pay     |-> <<Log("Already paid and shipped")>>,
     ship    |-> <<Log("Already shipped")>>,
     deliver |-> <<SetState("DeliveredState"), Log("Order delivered; state -> DELIVERED")>>,
     cancel  |-> <<Log("Cannot cancel: already shipped")>>]

\* DeliveredState whose cancel() is still allowed
DeliveredState_CancelAllowed ==
    [pay     |-> <<Log("Already completed")>>,
     ship    |-> <<Log("Already delivered")>>,
     deliver |-> <<Log("Already delivered")>>,
     cancel  |-> <<SetState("CancelledState"), Log("Order cancelled; state -> CANCELLED")>>]

\* DeliveredState that does not define cancel(): the class stays abstract
DeliveredState_NoCancel ==
    [pay     |-> <<Log("Already completed")>>,
     ship    |-> <<Log("Already delivered")>>,
     deliver |-> <<Log("Already delivered")>>]

DeliveredState ==
    [pay     |-> <<Log("Already completed")>>,
     ship    |-> <<Log("Already delivered")>>,
     deliver |-> <<Log("Already delivered")>>,
     cancel  |-> <<Log("Cannot cancel: already delivered")>>]

CancelledState ==
    [pay     |-> <<Log("Cannot pay: order cancelled")>>,
     ship    |-> <<Log("Cannot ship: order cancelled")>>,
     deliver |-> <<Log("Cannot deliver: order cancelled")>>,
     cancel  |-> <<Log("Already cancelled")>>]

\* the concrete state classes the module defines, by name
StateClasses ==
    [CreatedState   |-> CreatedState,
     PaidState      |-> PaidState,
     ShippedState   |-> ShippedState,
     DeliveredState |-> DeliveredState,
     CancelledState |-> CancelledState]

\* ABC: a class can be instantiated only when no abstract method is left
Instantiable(cls) ==
    cls \in DOMAIN StateClasses /\ OrderState \subseteq DOMAIN StateClasses[cls]

\* method resolution: the class's own body, else the inherited abstract `pass`
Lookup(cls, op) ==
    IF op \in DOMAIN StateClasses[cls] THEN StateClasses[cls][op] ELSE <<>>

\* ----------------------------------------------------------------- Order
\* a default _state of another class
DefaultStateClass_Paid == "PaidState"

\* class of the default value of the _state field
DefaultStateClass == "CreatedState"

\* reference of the default state object built when the class is defined
DefaultState == <<0, 1>>

\* _set_state that drops its argument and stores None
_set_state_None(ords, i, state) == [ords EXCEPT ![i]._state = NULL]

\* _set_state that assigns the class attribute, seen by every Order
_set_state_ClassAttr(ords, i, state) ==
    [j \in DOMAIN ords |-> [ords[j] EXCEPT !._state = state]]

\* _set_state that stores nothing
_set_state_Dropped(ords, i, state) == ords

\* Order._set_state
_set_state(ords, i, state) == [ords EXCEPT ![i]._state = state]

\* Order.log: the line it prints
log(self, message) == "[Order " \o self.order_id \o "] " \o message

\* type(obj).__name__
ClassName(ref) == IF ref = NULL THEN "NoneType" ELSE heap[ref[1]][ref[2]]

\* status() without the upper()
status_of_NoUpper(self) == replace(ClassName(self._state), "State", "")

\* Order.status
status_of(self) == upper(replace(ClassName(self._state), "State", ""))

\* a transition that rewrites the class of the current state object in place
\* instead of building a new state object
Exec_InPlace(s, i, st) ==
    IF s.stmt = "_set_state"
    THEN LET ref == st.orders[i]._state
         IN [st EXCEPT !.heap = [@ EXCEPT ![ref[1]][ref[2]] = s.cls],
                       !.sets = Append(@, s.cls)]
    ELSE [st EXCEPT !.out = Append(@, log(st.orders[i], s.msg))]

\* one statement of a state method, run on behalf of order i
Exec(s, i, st) ==
    IF s.stmt = "_set_state"
    THEN IF ~Instantiable(s.cls)
         THEN [st EXCEPT !.exc = "TypeError"]
         ELSE [st EXCEPT !.heap = [@ EXCEPT ![i] = Append(@, s.cls)],
                         !.orders = _set_state(@, i, <<i, Len(st.heap[i]) + 1>>),
                         !.sets = Append(@, s.cls)]
    ELSE [st EXCEPT !.out = Append(@, log(st.orders[i], s.msg))]

RECURSIVE Run(_, _, _)
\* a method body: statements in order, stopping at the first exception
Run(body, i, st) ==
    IF body = <<>> \/ st.exc # None THEN st
    ELSE Run(Tail(body), i, Exec(Head(body), i, st))

\* Order.pay / ship / deliver / cancel: delegate to the current state
Delegate(i, op) ==
    /\ i \in 1..Len(orders)
    /\ LET self == orders[i]
           st0 == [heap |-> heap, orders |-> orders, out |-> <<>>,
                   sets |-> <<>>, ret |-> None, exc |-> None]
           st == IF self._state = NULL
                 THEN [st0 EXCEPT !.exc = "AttributeError"]
                 ELSE Run(Lookup(ClassName(self._state), op), i, st0)
       IN /\ heap' = st.heap
          /\ orders' = st.orders
          /\ transitions' = [transitions EXCEPT ![i] = @ \o st.sets]
          /\ call' = [op |-> op, self |-> i, pre |-> self._state,
                      post |-> st.orders[i]._state, out |-> st.out,
                      sret |-> st.ret, ret |-> None, exc |-> st.exc]
    /\ UNCHANGED nonOrderVars

pay(i) == Delegate(i, "pay")

ship(i) == Delegate(i, "ship")

deliver(i) == Delegate(i, "deliver")

cancel(i) == Delegate(i, "cancel")

\* a status() that also prints what it returns
status_Logging(i) ==
    /\ i \in 1..Len(orders)
    /\ call' = [op |-> "status", self |-> i, pre |-> orders[i]._state,
                post |-> orders[i]._state,
                out |-> <<log(orders[i], status_of(orders[i]))>>, sret |-> None,
                ret |-> status_of(orders[i]), exc |-> None]
    /\ UNCHANGED <<heap, orders, transitions>>
    /\ UNCHANGED nonOrderVars

\* Order.status()
status(i) ==
    /\ i \in 1..Len(orders)
    /\ call' = [op |-> "status", self |-> i, pre |-> orders[i]._state,
                post |-> orders[i]._state, out |-> <<>>, sret |-> None,
                ret |-> status_of(orders[i]), exc |-> None]
    /\ UNCHANGED <<heap, orders, transitions>>
    /\ UNCHANGED nonOrderVars

\* Order.log(message) called from outside
CallLog(i, message) ==
    /\ i \in 1..Len(orders)
    /\ call' = [op |-> "log", self |-> i, pre |-> orders[i]._state,
                post |-> orders[i]._state, out |-> <<log(orders[i], message)>>,
                sret |-> None, ret |-> None, exc |-> None]
    /\ UNCHANGED <<heap, orders, transitions>>
    /\ UNCHANGED nonOrderVars

\* Order(order_id=...): the dataclass constructor with the default _state
Order(order_id) ==
    /\ Len(orders) < MaxOrders
    /\ orders' = Append(orders, [order_id |-> order_id, _state |-> DefaultState])
    /\ transitions' = Append(transitions, <<>>)
    /\ call' = [op |-> "__init__", self |-> Len(orders) + 1, pre |-> NULL,
                post |-> DefaultState, out |-> <<>>, sret |-> None, ret |-> None,
                exc |-> None]
    /\ UNCHANGED heap
    /\ UNCHANGED nonOrderVars

NoCall ==
    [op |-> "", self |-> 0, pre |-> NULL, post |-> NULL, out |-> <<>>,
     sret |-> None, ret |-> None, exc |-> None]

\* the module has been imported and no Order constructed
OrderInit ==
    /\ heap = [k \in 0..MaxOrders |-> IF k = 0 THEN <<DefaultStateClass>> ELSE <<>>]
    /\ orders = <<>>
    /\ transitions = <<>>
    /\ call = NoCall

\* no caller is inside a call
IdleThread ==
    [pc |-> "idle", self |-> 0, op |-> "", seen |-> NULL, body |-> <<>>,
     out |-> <<>>, ret |-> None]

ConcIdle ==
    /\ threads = [t \in 1..MaxThreads |-> IdleThread]
    /\ exclusive = TRUE
    /\ commits = [i \in 1..MaxOrders |-> <<>>]

\* lamp = Light(), invoker = RemoteInvoker(), macro = MacroCommand()
NoResult == [op |-> "", arg |-> None, ret |-> None, exc |-> None, trace |-> <<>>]

CmdIdle ==
    /\ lamp = [_is_on |-> FALSE]
    /\ invoker = [_history |-> <<>>, _queue |-> <<>>]
    /\ macro = [_commands |-> <<>>]
    /\ result = NoResult
    /\ executions = <<>>
    /\ popped = {}

\* ticker = StockTicker("ACME") and no call made on it
NoNotice == [op |-> "", obs |-> None, price |-> None, updates |-> <<>>, out |-> <<>>]

ObsIdle ==
    /\ ticker = [symbol |-> "ACME", _price |-> 0, _observers |-> <<>>]
    /\ notice = NoNotice
    /\ events = <<>>

\* a reference to no object (None), and the lock held by nobody
NoRef == 0

\* the classes whose metaclass is SingletonMeta: Cache, and Settings, whose
\* __init__(self, env) keeps its one argument
MetaClasses == {"Cache", "Settings"}

\* the keys and values callers give to Cache.set and Cache.get
Keys == {"x"}
Values == {"42", "7"}

\* an object not constructed yet
NoObject == [cls |-> "", prefix |-> "", env |-> "", _store |-> <<>>, inits |-> 0]

\* a thread that has made no call
IdleCaller ==
    [pc |-> "idle", fn |-> "", cls |-> "", args |-> <<>>, new |-> NoRef,
     ret |-> NoRef, exc |-> None, locked |-> FALSE, got |-> None]

\* the module has been imported: no Logger, no instance of a SingletonMeta class
SingIdle ==
    /\ Logger = [_instance |-> NoRef, _lock |-> NoRef]
    /\ SingletonMeta = [_instances |-> [c \in MetaClasses |-> NoRef], _lock |-> NoRef]
    /\ objects = [t \in 1..MaxCallers |-> NoObject]
    /\ callers = [t \in 1..MaxCallers |-> IdleCaller]
    /\ written = [k \in Keys |-> None]

Init ==
    /\ OrderInit
    /\ ConcIdle
    /\ CmdIdle
    /\ ObsIdle
    /\ SingIdle

Next ==
    \/ \E id \in OrderIds : Order(id)
    \/ \E i \in 1..MaxOrders : pay(i)
    \/ \E i \in 1..MaxOrders : ship(i)
    \/ \E i \in 1..MaxOrders : deliver(i)
    \/ \E i \in 1..MaxOrders : cancel(i)
    \/ \E i \in 1..MaxOrders : status(i)
    \/ \E i \in 1..MaxOrders, m \in LogMessages : CallLog(i, m)

Spec == Init /\ [][Next]_vars

\* ------------------------------------------- Order operations, interleaved
\* Each caller t makes one call Order.<op> on an order i, one statement at a
\* time: the read of self._state with the method lookup, then each statement
\* of the state method, then the return.

\* self._state.<op>: read the current state and bind its method
Begin(t, i, op) ==
    /\ threads[t].pc = "idle"
    /\ i \in 1..Len(orders)
    /\ exclusive => \A u \in 1..MaxThreads : threads[u].pc # "running"
    /\ threads' = [threads EXCEPT ![t] =
                      [pc |-> "running", self |-> i, op |-> op,
                       seen |-> orders[i]._state,
                       body |-> Lookup(ClassName(orders[i]._state), op),
                       out |-> <<>>, ret |-> None]]
    /\ UNCHANGED <<orderVars, exclusive, commits, nonConcVars>>

\* the next statement of the state method the caller is in
Step(t) ==
    /\ threads[t].pc = "running"
    /\ threads[t].body # <<>>
    /\ LET i == threads[t].self
           s == Head(threads[t].body)
           st0 == [heap |-> heap, orders |-> orders, out |-> threads[t].out,
                   sets |-> <<>>, exc |-> None]
           st == Exec(s, i, st0)
       IN /\ heap' = st.heap
          /\ orders' = st.orders
          /\ transitions' = [transitions EXCEPT ![i] = @ \o st.sets]
          /\ commits' = IF st.sets = <<>> THEN commits
                        ELSE [commits EXCEPT ![i] =
                                 Append(@, [seen |-> threads[t].seen,
                                            cls |-> st.sets[1], by |-> t])]
          /\ threads' = [threads EXCEPT ![t].body = Tail(@), ![t].out = st.out]
    /\ UNCHANGED <<call, exclusive, nonConcVars>>

\* the state method and Order.<op> return None
Return(t) ==
    /\ threads[t].pc = "running"
    /\ threads[t].body = <<>>
    /\ threads' = [threads EXCEPT ![t].pc = "done"]
    /\ UNCHANGED <<orderVars, exclusive, commits, nonConcVars>>

ConcInit ==
    /\ OrderInit
    /\ threads = [t \in 1..MaxThreads |-> IdleThread]
    /\ exclusive \in BOOLEAN
    /\ commits = [i \in 1..MaxOrders |-> <<>>]
    /\ CmdIdle
    /\ ObsIdle
    /\ SingIdle

ConcNext ==
    \/ \E id \in OrderIds : Order(id)
    \/ \E t \in 1..MaxThreads, i \in 1..MaxOrders, op \in OrderState : Begin(t, i, op)
    \/ \E t \in 1..MaxThreads : Step(t)
    \/ \E t \in 1..MaxThreads : Return(t)

ConcSpec == ConcInit /\ [][ConcNext]_vars

\* --------------------------------------------------------- command pattern
\* Light.turn_on
turn_on(l) == [light |-> [l EXCEPT !._is_on = TRUE], ret |-> "Light turned ON", exc |-> None]

\* Light.turn_off
turn_off(l) == [light |-> [l EXCEPT !._is_on = FALSE], ret |-> "Light turned OFF", exc |-> None]

\* the command objects a caller holds: on_cmd = TurnOnCommand(lamp),
\* off_cmd = TurnOffCommand(lamp), plain_cmd = an instance of a Command
\* subclass that defines execute only
CommandClass ==
    [on_cmd |-> "TurnOnCommand", off_cmd |-> "TurnOffCommand", plain_cmd |-> "PlainCommand"]

SimpleCommands == DOMAIN CommandClass

\* the methods each class body defines
ClassMethods ==
    [Command        |-> {"execute", "undo"},
     TurnOnCommand  |-> {"execute", "undo"},
     TurnOffCommand |-> {"execute", "undo"},
     PlainCommand   |-> {"execute"}]

\* hasattr(cmd, "undo") and callable(getattr(cmd, "undo", None)): the
\* attribute is looked up on the class and then on its base, Command
hasattr_undo(cmd) ==
    "undo" \in ClassMethods[CommandClass[cmd]] \cup ClassMethods["Command"]

\* cmd.execute()
execute(cmd, l) ==
    CASE CommandClass[cmd] = "TurnOnCommand"  -> turn_on(l)
      [] CommandClass[cmd] = "TurnOffCommand" -> turn_off(l)
      [] OTHER -> [light |-> l, ret |-> "done", exc |-> None]

\* cmd.undo(): the class's own undo, else Command.undo, which raises
undo(cmd, l) ==
    CASE CommandClass[cmd] = "TurnOnCommand"  -> turn_off(l)
      [] CommandClass[cmd] = "TurnOffCommand" -> turn_on(l)
      [] OTHER -> [light |-> l, ret |-> None, exc |-> "NotImplementedError"]

\* body of RemoteInvoker.set_command on the running state st
SetCommandBody(st, cmd) ==
    LET r == execute(cmd, st.lamp)
    IN [st EXCEPT !.lamp = r.light,
                  !.history = IF hasattr_undo(cmd)
                              THEN Append(@, [cmd |-> cmd, at |-> Len(st.executions) + 1])
                              ELSE @,
                  !.executions = Append(@, cmd),
                  !.trace = Append(@, <<"execute", cmd>>),
                  !.ret = r.ret]

RECURSIVE RunQueueLoop_LIFO(_)
\* a run_queue loop that takes the commands from the right end of the queue
RunQueueLoop_LIFO(st) ==
    IF st.queue = <<>> THEN st
    ELSE LET n == Len(st.queue)
             cmd == st.queue[n]
             st1 == SetCommandBody([st EXCEPT !.queue = SubSeq(@, 1, n - 1)], cmd)
         IN RunQueueLoop_LIFO([st1 EXCEPT !.results = Append(@, st1.ret)])

RECURSIVE RunQueueLoop(_)
\* the while loop of RemoteInvoker.run_queue
RunQueueLoop(st) ==
    IF st.queue = <<>> THEN st
    ELSE LET cmd == Head(st.queue)
             st1 == SetCommandBody([st EXCEPT !.queue = Tail(@)], cmd)
         IN RunQueueLoop([st1 EXCEPT !.results = Append(@, st1.ret)])

Running ==
    [lamp |-> lamp, history |-> invoker._history, queue |-> invoker._queue,
     executions |-> executions, trace |-> <<>>, ret |-> None, results |-> <<>>]

\* what a call leaves in the variables
Commit(st, r) ==
    /\ lamp' = st.lamp
    /\ invoker' = [_history |-> st.history, _queue |-> st.queue]
    /\ executions' = st.executions
    /\ result' = r

\* RemoteInvoker.set_command(cmd)
set_command(cmd) ==
    /\ Len(executions) < MaxExec
    /\ LET st == SetCommandBody(Running, cmd)
       IN Commit(st, [op |-> "set_command", arg |-> cmd, ret |-> st.ret,
                      exc |-> None, trace |-> st.trace])
    /\ UNCHANGED <<macro, popped, nonCmdVars>>

\* RemoteInvoker.queue_command(cmd)
queue_command(cmd) ==
    /\ Len(invoker._queue) < MaxQueue
    /\ invoker' = [invoker EXCEPT !._queue = Append(@, cmd)]
    /\ result' = [op |-> "queue_command", arg |-> cmd, ret |-> None,
                  exc |-> None, trace |-> <<>>]
    /\ UNCHANGED <<lamp, macro, executions, popped, nonCmdVars>>

\* RemoteInvoker.run_queue()
run_queue ==
    /\ Len(executions) + Len(invoker._queue) <= MaxExec
    /\ LET st == RunQueueLoop(Running)
       IN Commit(st, [op |-> "run_queue", arg |-> invoker._queue, ret |-> st.results,
                      exc |-> None, trace |-> st.trace])
    /\ UNCHANGED <<macro, popped, nonCmdVars>>

\* RemoteInvoker.undo_last()
undo_last ==
    IF invoker._history = <<>>
    THEN /\ result' = [op |-> "undo_last", arg |-> None, ret |-> "Nothing to undo",
                       exc |-> None, trace |-> <<>>]
         /\ UNCHANGED <<lamp, invoker, macro, executions, popped, nonCmdVars>>
    ELSE LET n == Len(invoker._history)
             last == invoker._history[n]
             r == undo(last.cmd, lamp)
         IN /\ invoker' = [invoker EXCEPT !._history = SubSeq(@, 1, n - 1)]
            /\ lamp' = r.light
            /\ result' = [op |-> "undo_last", arg |-> None,
                          ret |-> IF r.exc = "NotImplementedError"
                                  THEN "Cannot undo this command" ELSE r.ret,
                          exc |-> None, trace |-> <<<<"undo", last.cmd>>>>]
            /\ popped' = popped \cup {last.at}
            /\ UNCHANGED <<macro, executions, nonCmdVars>>

\* MacroCommand.add(cmd)
macro_add(cmd) ==
    /\ Len(macro._commands) < MaxMacro
    /\ macro' = [macro EXCEPT !._commands = Append(@, cmd)]
    /\ result' = [op |-> "add", arg |-> cmd, ret |-> None, exc |-> None,
                  trace |-> <<>>]
    /\ UNCHANGED <<lamp, invoker, executions, popped, nonCmdVars>>

RECURSIVE ExecuteLoop(_, _)
\* the for loop of MacroCommand.execute over the commands still to run
ExecuteLoop(cmds, st) ==
    IF cmds = <<>> THEN st
    ELSE LET r == execute(Head(cmds), st.lamp)
         IN ExecuteLoop(Tail(cmds),
                        [st EXCEPT !.lamp = r.light,
                                   !.trace = Append(@, <<"execute", Head(cmds)>>),
                                   !.results = Append(@, r.ret)])

\* an iteration that keeps the list's own order
reversed_Forward(l) == l

\* reversed(list)
reversed(l) == [k \in 1..Len(l) |-> l[Len(l) + 1 - k]]

RECURSIVE UndoLoop(_, _)
\* the for loop of MacroCommand.undo over the commands still to undo; an
\* exception raised by a command's undo ends the loop and the call
UndoLoop(cmds, st) ==
    IF cmds = <<>> \/ st.exc # None THEN st
    ELSE LET r == undo(Head(cmds), st.lamp)
         IN UndoLoop(Tail(cmds),
                     [st EXCEPT !.lamp = r.light,
                                !.trace = Append(@, <<"undo", Head(cmds)>>),
                                !.results = IF r.exc = None THEN Append(@, r.ret) ELSE @,
                                !.exc = r.exc])

MacroRunning == [lamp |-> lamp, trace |-> <<>>, results |-> <<>>, exc |-> None]

\* MacroCommand.execute()
macro_execute ==
    /\ LET st == ExecuteLoop(macro._commands, MacroRunning)
       IN /\ lamp' = st.lamp
          /\ result' = [op |-> "execute", arg |-> macro._commands, ret |-> st.results,
                        exc |-> None, trace |-> st.trace]
    /\ UNCHANGED <<invoker, macro, executions, popped, nonCmdVars>>

\* MacroCommand.undo()
macro_undo ==
    /\ LET st == UndoLoop(reversed(macro._commands), MacroRunning)
       IN /\ lamp' = st.lamp
          /\ result' = [op |-> "undo", arg |-> macro._commands,
                        ret |-> IF st.exc = None THEN st.results ELSE None,
                        exc |-> st.exc, trace |-> st.trace]
    /\ UNCHANGED <<invoker, macro, executions, popped, nonCmdVars>>

\* macro = MacroCommand(commands): _commands is a copy of the list given
MacroInit ==
    /\ lamp = [_is_on |-> FALSE]
    /\ invoker = [_history |-> <<>>, _queue |-> <<>>]
    /\ \E n \in 0..MaxMacro :
          \E cmds \in [1..n -> SimpleCommands] : macro = [_commands |-> cmds]
    /\ result = NoResult
    /\ executions = <<>>
    /\ popped = {}
    /\ OrderInit
    /\ ConcIdle
    /\ ObsIdle
    /\ SingIdle

MacroNext ==
    \/ \E cmd \in SimpleCommands : macro_add(cmd)
    \/ macro_execute
    \/ macro_undo

MacroSpec == MacroInit /\ [][MacroNext]_vars

CmdInit ==
    /\ CmdIdle
    /\ OrderInit
    /\ ConcIdle
    /\ ObsIdle
    /\ SingIdle

CmdNext ==
    \/ \E cmd \in SimpleCommands : set_command(cmd)
    \/ \E cmd \in SimpleCommands : queue_command(cmd)
    \/ run_queue
    \/ undo_last

CmdSpec == CmdInit /\ [][CmdNext]_vars

\* -------------------------------------------------------- observer pattern
\* the observer objects a caller holds: trading = TradingEngine(),
\* alert = AlertService(threshold=150.0), logger = LoggerObserver()
ObserverClass ==
    [trading |-> "TradingEngine", alert |-> "AlertService", logger |-> "LoggerObserver"]

Observers == DOMAIN ObserverClass

AlertThreshold == 150

\* the prices a caller sets: one below the alert's threshold, one above
Prices == {120, 160}

\* observer in self._observers
In(observer, list) == \E k \in 1..Len(list) : list[k] = observer

\* list.remove(observer): the first occurrence goes
remove(list, observer) ==
    LET k == CHOOSE i \in 1..Len(list) :
                 /\ list[i] = observer
                 /\ \A j \in 1..(i - 1) : list[j] # observer
    IN SubSeq(list, 1, k - 1) \o SubSeq(list, k + 1, Len(list))

\* obs.update(subject, info): what the observer prints; info is the dict
\* set_price builds, never empty and with a price
update(obs, subject, info) ==
    CASE ObserverClass[obs] = "TradingEngine" ->
            <<[who |-> "TradingEngine", symbol |-> info.symbol, price |-> info.price]>>
      [] ObserverClass[obs] = "AlertService" ->
            IF info.price > AlertThreshold
            THEN <<[who |-> "AlertService", symbol |-> info.symbol, price |-> info.price]>>
            ELSE <<>>
      [] ObserverClass[obs] = "LoggerObserver" ->
            <<[who |-> "Logger", symbol |-> subject.symbol, price |-> info.price]>>

RECURSIVE NotifyLoop(_, _, _, _)
\* the for loop of Subject.notify over the observers still to call
NotifyLoop(list, subject, info, st) ==
    IF list = <<>> THEN st
    ELSE NotifyLoop(Tail(list), subject, info,
                    [st EXCEPT !.updates = Append(@, [obs |-> Head(list), info |-> info]),
                               !.out = @ \o update(Head(list), subject, info)])

\* Subject.notify(info), over a copy of the list
notify(subject, info) ==
    NotifyLoop(subject._observers, subject, info, [updates |-> <<>>, out |-> <<>>])

\* an attach that appends without looking
attach_NoLookup(observer) ==
    /\ Len(events) < MaxEvents
    /\ ticker' = [ticker EXCEPT !._observers = Append(@, observer)]
    /\ notice' = [NoNotice EXCEPT !.op = "attach", !.obs = observer]
    /\ events' = Append(events, <<"attach", observer>>)
    /\ UNCHANGED nonObsVars

\* Subject.attach(observer)
attach(observer) ==
    /\ Len(events) < MaxEvents
    /\ ticker' = IF ~In(observer, ticker._observers)
                 THEN [ticker EXCEPT !._observers = Append(@, observer)]
                 ELSE ticker
    /\ notice' = [NoNotice EXCEPT !.op = "attach", !.obs = observer]
    /\ events' = Append(events, <<"attach", observer>>)
    /\ UNCHANGED nonObsVars

\* Subject.detach(observer)
detach(observer) ==
    /\ Len(events) < MaxEvents
    /\ ticker' = IF In(observer, ticker._observers)
                 THEN [ticker EXCEPT !._observers = remove(@, observer)]
                 ELSE ticker
    /\ notice' = [NoNotice EXCEPT !.op = "detach", !.obs = observer]
    /\ events' = Append(events, <<"detach", observer>>)
    /\ UNCHANGED nonObsVars

\* StockTicker.set_price(new_price)
set_price(new_price) ==
    /\ LET self == [ticker EXCEPT !._price = new_price]
           st == notify(self, [symbol |-> self.symbol, price |-> self._price])
       IN /\ ticker' = self
          /\ notice' = [NoNotice EXCEPT !.op = "set_price", !.price = new_price,
                                        !.updates = st.updates, !.out = st.out]
    /\ UNCHANGED <<events, nonObsVars>>

ObsInit ==
    /\ ObsIdle
    /\ SingIdle
    /\ OrderInit
    /\ ConcIdle
    /\ CmdIdle

ObsNext ==
    \/ \E o \in Observers : attach(o)
    \/ \E o \in Observers : detach(o)
    \/ \E p \in Prices : set_price(p)

ObsSpec == ObsInit /\ [][ObsNext]_vars

\* --------------------------------------------------------------- singletons
\* Each caller t makes one call, Logger.instance(prefix) or cls(*args) for a
\* class cls of SingletonMeta, one access to shared state at a time; a caller
\* whose cls() has returned a Cache goes on to use it with set and get.

\* the prefixes callers pass to Logger.instance
Prefixes == {"[L1] ", "[L2] "}

\* the positional arguments callers pass to a SingletonMeta class
Args == {<<>>, <<"dev">>, <<"prod">>}

\* Logger.__init__(self, prefix)
Logger__init__(prefix) ==
    [NoObject EXCEPT !.cls = "Logger", !.prefix = prefix, !.inits = 1]

\* type.__call__(cls, *args): cls.__new__ and then cls.__init__(self, *args),
\* Cache.__init__(self) or Settings.__init__(self, env); arguments that do
\* not fit the signature raise TypeError
type__call__(cls, args) ==
    CASE cls = "Cache" /\ Len(args) = 0 ->
            [obj |-> [NoObject EXCEPT !.cls = "Cache", !.inits = 1], exc |-> None]
      [] cls = "Settings" /\ Len(args) = 1 ->
            [obj |-> [NoObject EXCEPT !.cls = "Settings", !.env = args[1], !.inits = 1],
             exc |-> None]
      [] OTHER -> [obj |-> NoObject, exc |-> "TypeError"]

\* self._store[k] = v
setitem(store, k, v) ==
    [kk \in (DOMAIN store) \cup {k} |-> IF kk = k THEN v ELSE store[kk]]

\* Cache.get(k, default=None): self._store.get(k, default)
get(obj, k, default) ==
    IF k \in DOMAIN obj._store THEN obj._store[k] ELSE default

At(t, pc, fn) == callers[t].pc = pc /\ callers[t].fn = fn

Goto(t, pc) == callers' = [callers EXCEPT ![t].pc = pc]

\* Logger.instance(prefix), entered with the first check (line 87)
instance(t, prefix) ==
    /\ callers[t].pc = "idle"
    /\ callers' = [callers EXCEPT ![t] =
          [@ EXCEPT !.fn = "instance", !.cls = "Logger", !.args = <<prefix>>,
                    !.pc = IF Logger._instance = NoRef THEN "lock" ELSE "return"]]
    /\ UNCHANGED <<Logger, SingletonMeta, objects, written, nonSingVars>>

\* with cls._lock: entered when nobody holds the lock
Logger_acquire(t) ==
    /\ At(t, "lock", "instance")
    /\ Logger._lock = NoRef
    /\ Logger' = [Logger EXCEPT !._lock = t]
    /\ callers' = [callers EXCEPT ![t].pc = "check", ![t].locked = TRUE]
    /\ UNCHANGED <<SingletonMeta, objects, written, nonSingVars>>

\* a locked section that constructs without looking at _instance again
Logger_check_Unchecked(t) ==
    /\ At(t, "check", "instance")
    /\ objects' = [objects EXCEPT ![t] = Logger__init__(callers[t].args[1])]
    /\ callers' = [callers EXCEPT ![t].pc = "assign", ![t].new = t]
    /\ UNCHANGED <<Logger, SingletonMeta, written, nonSingVars>>

\* the second check (line 89) and, when it finds None, cls(prefix=prefix)
Logger_check(t) ==
    /\ At(t, "check", "instance")
    /\ IF Logger._instance = NoRef
       THEN /\ objects' = [objects EXCEPT ![t] = Logger__init__(callers[t].args[1])]
            /\ callers' = [callers EXCEPT ![t].pc = "assign", ![t].new = t]
       ELSE /\ Goto(t, "release")
            /\ UNCHANGED objects
    /\ UNCHANGED <<Logger, SingletonMeta, written, nonSingVars>>

\* cls._instance = <the new Logger>
Logger_assign(t) ==
    /\ At(t, "assign", "instance")
    /\ Logger' = [Logger EXCEPT !._instance = callers[t].new]
    /\ Goto(t, "release")
    /\ UNCHANGED <<SingletonMeta, objects, written, nonSingVars>>

\* the end of the with block
Logger_release(t) ==
    /\ At(t, "release", "instance")
    /\ Logger' = [Logger EXCEPT !._lock = NoRef]
    /\ Goto(t, "return")
    /\ UNCHANGED <<SingletonMeta, objects, written, nonSingVars>>

\* a return that runs __init__ on the instance with this call's prefix
Logger_return_Reinit(t) ==
    /\ At(t, "return", "instance")
    /\ objects' = [objects EXCEPT ![Logger._instance].prefix = callers[t].args[1]]
    /\ callers' = [callers EXCEPT ![t].pc = "done", ![t].ret = Logger._instance]
    /\ UNCHANGED <<Logger, SingletonMeta, written, nonSingVars>>

\* return cls._instance
Logger_return(t) ==
    /\ At(t, "return", "instance")
    /\ callers' = [callers EXCEPT ![t].pc = "done", ![t].ret = Logger._instance]
    /\ UNCHANGED <<Logger, SingletonMeta, objects, written, nonSingVars>>

\* SingletonMeta.__call__(cls, *args), entered with the first check (line 107)
__call__(t, cls, args) ==
    /\ callers[t].pc = "idle"
    /\ callers' = [callers EXCEPT ![t] =
          [@ EXCEPT !.fn = "__call__", !.cls = cls, !.args = args,
                    !.pc = IF SingletonMeta._instances[cls] = NoRef
                           THEN "lock" ELSE "return"]]
    /\ UNCHANGED <<Logger, SingletonMeta, objects, written, nonSingVars>>

\* with cls._lock: the one lock of the metaclass
Meta_acquire(t) ==
    /\ At(t, "lock", "__call__")
    /\ SingletonMeta._lock = NoRef
    /\ SingletonMeta' = [SingletonMeta EXCEPT !._lock = t]
    /\ callers' = [callers EXCEPT ![t].pc = "check", ![t].locked = TRUE]
    /\ UNCHANGED <<Logger, objects, written, nonSingVars>>

\* a locked section that constructs without looking at _instances again
Meta_check_Unchecked(t) ==
    /\ At(t, "check", "__call__")
    /\ LET r == type__call__(callers[t].cls, callers[t].args)
       IN IF r.exc = None
          THEN /\ objects' = [objects EXCEPT ![t] = r.obj]
               /\ callers' = [callers EXCEPT ![t].pc = "assign", ![t].new = t]
          ELSE /\ callers' = [callers EXCEPT ![t].pc = "release", ![t].exc = r.exc]
               /\ UNCHANGED objects
    /\ UNCHANGED <<Logger, SingletonMeta, written, nonSingVars>>

\* the second check (line 109) and, when cls is not in the dict,
\* super().__call__(*args, **kwargs)
Meta_check(t) ==
    /\ At(t, "check", "__call__")
    /\ IF SingletonMeta._instances[callers[t].cls] = NoRef
       THEN LET r == type__call__(callers[t].cls, callers[t].args)
            IN IF r.exc = None
               THEN /\ objects' = [objects EXCEPT ![t] = r.obj]
                    /\ callers' = [callers EXCEPT ![t].pc = "assign", ![t].new = t]
               ELSE /\ callers' = [callers EXCEPT ![t].pc = "release", ![t].exc = r.exc]
                    /\ UNCHANGED objects
       ELSE /\ Goto(t, "release")
            /\ UNCHANGED objects
    /\ UNCHANGED <<Logger, SingletonMeta, written, nonSingVars>>

\* cls._instances[cls] = <the new object>
Meta_assign(t) ==
    /\ At(t, "assign", "__call__")
    /\ SingletonMeta' = [SingletonMeta EXCEPT !._instances[callers[t].cls] = callers[t].new]
    /\ Goto(t, "release")
    /\ UNCHANGED <<Logger, objects, written, nonSingVars>>

\* the end of the with block, reached by the exception as well, which then
\* leaves __call__
Meta_release(t) ==
    /\ At(t, "release", "__call__")
    /\ SingletonMeta' = [SingletonMeta EXCEPT !._lock = NoRef]
    /\ Goto(t, IF callers[t].exc = None THEN "return" ELSE "done")
    /\ UNCHANGED <<Logger, objects, written, nonSingVars>>

\* return cls._instances[cls]
Meta_return(t) ==
    /\ At(t, "return", "__call__")
    /\ callers' = [callers EXCEPT ![t].pc = "done",
                                  ![t].ret = SingletonMeta._instances[callers[t].cls]]
    /\ UNCHANGED <<Logger, SingletonMeta, objects, written, nonSingVars>>

\* the caller's cls() returned a Cache
HoldsCache(t) ==
    /\ callers[t].pc = "done"
    /\ callers[t].cls = "Cache"
    /\ callers[t].ret # NoRef

\* Cache.set(k, v) through the reference caller t holds
Cache_set(t, k, v) ==
    /\ HoldsCache(t)
    /\ objects' = [objects EXCEPT ![callers[t].ret]._store = setitem(@, k, v)]
    /\ written' = [written EXCEPT ![k] = v]
    /\ UNCHANGED <<Logger, SingletonMeta, callers, nonSingVars>>

\* Cache.get(k) through the reference caller t holds
Cache_get(t, k) ==
    /\ HoldsCache(t)
    /\ callers' = [callers EXCEPT ![t].got = get(objects[callers[t].ret], k, None)]
    /\ UNCHANGED <<Logger, SingletonMeta, objects, written, nonSingVars>>

SingInit ==
    /\ SingIdle
    /\ OrderInit
    /\ ConcIdle
    /\ CmdIdle
    /\ ObsIdle

SingNext ==
    \/ \E t \in 1..MaxCallers, prefix \in Prefixes : instance(t, prefix)
    \/ \E t \in 1..MaxCallers : Logger_acquire(t)
    \/ \E t \in 1..MaxCallers : Logger_check(t)
    \/ \E t \in 1..MaxCallers : Logger_assign(t)
    \/ \E t \in 1..MaxCallers : Logger_release(t)
    \/ \E t \in 1..MaxCallers : Logger_return(t)
    \/ \E t \in 1..MaxCallers, cls \in MetaClasses, args \in Args : __call__(t, cls, args)
    \/ \E t \in 1..MaxCallers : Meta_acquire(t)
    \/ \E t \in 1..MaxCallers : Meta_check(t)
    \/ \E t \in 1..MaxCallers : Meta_assign(t)
    \/ \E t \in 1..MaxCallers : Meta_release(t)
    \/ \E t \in 1..MaxCallers : Meta_return(t)
    \/ \E t \in 1..MaxCallers, k \in Keys, v \in Values : Cache_set(t, k, v)
    \/ \E t \in 1..MaxCallers, k \in Keys : Cache_get(t, k)

SingSpec == SingInit /\ [][SingNext]_vars

\* ------------------------------------------------------------ vocabulary
Ops == {"pay", "ship", "deliver", "cancel"}

Variants ==
    {"CreatedState", "PaidState", "ShippedState", "DeliveredState", "CancelledState"}

Terminal == {"DeliveredState", "CancelledState"}

\* display tag of each variant, as the transition table names them
VariantTag ==
    [CreatedState   |-> "CREATED",
     PaidState      |-> "PAID",
     ShippedState   |-> "SHIPPED",
     DeliveredState |-> "DELIVERED",
     CancelledState |-> "CANCELLED"]

\* the five legal transitions: <<state, operation, successor>>
LegalTransitions ==
    {<<"CreatedState", "pay", "PaidState">>,
     <<"CreatedState", "cancel", "CancelledState">>,
     <<"PaidState", "ship", "ShippedState">>,
     <<"PaidState", "cancel", "CancelledState">>,
     <<"ShippedState", "deliver", "DeliveredState">>}

LegalPairs == {<<t[1], t[2]>> : t \in LegalTransitions}

IsOp(c) == c.op \in Ops

\* the (state, operation) pair a call was made on
PairOf(c) == <<ClassName(c.pre), c.op>>

\* success indication: the state was replaced by the defined successor and one
\* line announcing the new state was printed
Success(c) ==
    /\ c.exc = None
    /\ c.post # c.pre
    /\ c.post # NULL
    /\ <<ClassName(c.pre), c.op, ClassName(c.post)>> \in LegalTransitions
    /\ Len(c.out) = 1
    /\ Contains(c.out[1], "state -> " \o VariantTag[ClassName(c.post)])

\* rejected indication: the state was kept and one line that announces no
\* new state was printed
Rejected(c) ==
    /\ c.exc = None
    /\ c.post = c.pre
    /\ Len(c.out) = 1
    /\ ~Contains(c.out[1], "state -> ")

TypeOK ==
    /\ DOMAIN heap = 0..MaxOrders
    /\ \A k \in DOMAIN heap : \A n \in 1..Len(heap[k]) : heap[k][n] \in Variants
    /\ Len(orders) <= MaxOrders
    /\ Len(transitions) = Len(orders)

\* ------------------------------------------------------------------ claims

\* C1: each of the five legal transitions moves the Order to exactly the
\* stated successor: Created.pay -> Paid, Created.cancel -> Cancelled,
\* Paid.ship -> Shipped, Paid.cancel -> Cancelled, Shipped.deliver -> Delivered.
C1_LegalTransitions ==
    IsOp(call) =>
        \A t \in LegalTransitions :
            (ClassName(call.pre) = t[1] /\ call.op = t[2]) =>
                /\ call.post # NULL
                /\ ClassName(call.post) = t[3]
                /\ orders[call.self]._state = call.post

\* two orders that between them took four of the five legal transitions, the
\* last call being one of them
C1_Witness ==
    /\ \E i, j \in 1..Len(orders) :
          /\ transitions[i] = <<"PaidState", "ShippedState", "DeliveredState">>
          /\ transitions[j] = <<"PaidState", "CancelledState">>
    /\ IsOp(call)
    /\ PairOf(call) \in LegalPairs

\* C2: for each of the 15 (state, operation) pairs that are not legal
\* transitions, the call leaves the Order's state unchanged.
C2_IllegalKeepsState ==
    (IsOp(call) /\ call.pre # NULL /\ PairOf(call) \notin LegalPairs) =>
        /\ call.post = call.pre
        /\ orders[call.self]._state = call.pre

C2_Witness ==
    /\ call.op = "cancel"
    /\ ClassName(call.pre) = "ShippedState"
    /\ ClassName(orders[call.self]._state) = "ShippedState"

\* C3: every pay/ship/deliver/cancel call does exactly one of (a) move to the
\* defined successor and print one line announcing the new state, (b) keep the
\* state and print one line that announces none; never both, never neither.
C3_SuccessXorRejected ==
    IsOp(call) =>
        /\ Success(call) \/ Rejected(call)
        /\ ~(Success(call) /\ Rejected(call))
        /\ Success(call) <=> PairOf(call) \in LegalPairs

C3_Witness ==
    /\ call.op = "cancel"
    /\ ClassName(call.pre) = "PaidState"
    /\ Success(call)
    /\ \E j \in 1..Len(orders) : j # call.self /\ transitions[j] = <<>>

\* C4: in every reachable state each Order's state is one of the five
\* variants and is never None.
C4_StateIsVariant ==
    \A i \in 1..Len(orders) :
        /\ orders[i]._state # NULL
        /\ orders[i]._state[1] \in DOMAIN heap
        /\ orders[i]._state[2] \in 1..Len(heap[orders[i]._state[1]])
        /\ ClassName(orders[i]._state) \in Variants

C4_Witness ==
    /\ Len(orders) = MaxOrders
    /\ \A i \in 1..Len(orders) : Len(transitions[i]) >= 2
    /\ call.op = "status"

\* C5: an Order is in state Created right after its construction, before any
\* operation was called on it.
C5_CreatedAtConstruction ==
    call.op = "__init__" =>
        /\ orders[call.self]._state # NULL
        /\ ClassName(orders[call.self]._state) = "CreatedState"
        /\ transitions[call.self] = <<>>

\* an Order constructed after another Order already left Created
C5_Witness ==
    /\ call.op = "__init__"
    /\ call.self > 1
    /\ transitions[1] # <<>>

\* a call made on an Order in a terminal state was rejected
TerminalCallRejected ==
    (IsOp(call) /\ ClassName(call.pre) \in Terminal) => Rejected(call)

\* C6: Delivered and Cancelled are terminal: a pay/ship/deliver/cancel call on
\* an Order in one of them is rejected, and no step changes such an Order's
\* state.
C6_Terminal ==
    [][ /\ \A i \in 1..Len(orders) :
              ClassName(orders[i]._state) \in Terminal =>
                  orders'[i]._state = orders[i]._state
        /\ TerminalCallRejected'
      ]_vars

\* the scenario cancel() then pay(): rejected, still Cancelled
C6_Witness ==
    /\ call.op = "pay"
    /\ ClassName(call.pre) = "CancelledState"
    /\ transitions[call.self] = <<"CancelledState">>
    /\ Rejected(call)
    /\ ClassName(orders[call.self]._state) = "CancelledState"

\* C7: status() returns the tag of the state reached by the last successful
\* transition, or CREATED when no call succeeded.
C7_StatusReflectsLast ==
    call.op = "status" =>
        call.ret = IF transitions[call.self] = <<>>
                   THEN "CREATED"
                   ELSE VariantTag[transitions[call.self][Len(transitions[call.self])]]

C7_Witness ==
    /\ call.op = "status"
    /\ transitions[call.self] = <<"PaidState", "CancelledState">>
    /\ call.ret = "CANCELLED"

\* C8: pay() twice on an Order in Created transitions once to Paid; the second
\* call is the rejection "Already paid" and leaves the state Paid.
C8_PayTwice ==
    [][ ( /\ call.op = "pay"
          /\ ClassName(call.pre) = "CreatedState"
          /\ call'.op = "pay"
          /\ call'.self = call.self
          /\ call' # call )
        => ( /\ ClassName(call.post) = "PaidState"
             /\ call'.pre = call.post
             /\ call'.post = call.post
             /\ call'.exc = None
             /\ Len(call'.out) = 1
             /\ EndsWith(call'.out[1], "] Already paid")
             /\ transitions'[call.self] = <<"PaidState">>
             /\ orders' = orders )
      ]_vars

C8_Witness ==
    /\ call.op = "pay"
    /\ ClassName(call.pre) = "PaidState"
    /\ call.post = call.pre
    /\ call.out = <<log(orders[call.self], "Already paid")>>
    /\ transitions[call.self] = <<"PaidState">>

C10_OnlyOpsMutate ==
    [][ \A i \in 1..Len(orders) :
            orders'[i]._state # orders[i]._state =>
                (call'.op \in Ops /\ call'.self = i)
      ]_vars

\* a log call on an Order that has moved, next to an Order that has moved too
C10_Witness ==
    /\ call.op = "log"
    /\ transitions[call.self] # <<>>
    /\ \E j \in 1..Len(orders) : j # call.self /\ transitions[j] # <<>>
    /\ \A i \in 1..Len(orders) :
          ClassName(orders[i]._state) = transitions[i][Len(transitions[i])]

\* two _set_state calls on order i made by calls that had read the same state
Conflict(i) ==
    \E a, b \in 1..Len(commits[i]) :
        a < b /\ commits[i][a].seen = commits[i][b].seen

\* caller t has returned from a call that printed one line announcing a state
ReportedSuccess(t) ==
    /\ threads[t].pc = "done"
    /\ Len(threads[t].out) = 1
    /\ Contains(threads[t].out[1], "state -> ")

\* C11: when each call runs as one uninterrupted step, no two calls on an
\* Order commit a transition from the same pre-transition state; without that
\* exclusion pay() and cancel() can both read Created and both report success
\* (the witness).
C11_ExclusiveNoConflict ==
    exclusive =>
        /\ \A i \in 1..MaxOrders : ~Conflict(i)
        /\ \A t, u \in 1..MaxThreads :
              (t # u /\ threads[t].self = threads[u].self /\ threads[t].self # 0
                 /\ threads[t].seen = threads[u].seen)
              => ~(ReportedSuccess(t) /\ ReportedSuccess(u))

C11_Witness ==
    /\ ~exclusive
    /\ \E t, u \in 1..MaxThreads :
          /\ threads[t].self = threads[u].self
          /\ threads[t].op = "pay" /\ threads[u].op = "cancel"
          /\ threads[t].seen = DefaultState /\ threads[u].seen = DefaultState
          /\ ReportedSuccess(t) /\ ReportedSuccess(u)
          /\ Conflict(threads[t].self)
          /\ transitions[threads[t].self] = <<"PaidState", "CancelledState">>
\* the class the order's _state refers to
StateOf(i) == ClassName(orders[i]._state)

\* C12: the happy path step by step: on a new Order pay() gives Paid, then
\* ship() gives Shipped, then deliver() gives Delivered, then cancel() is
\* rejected and the state remains Delivered.
C12_HappyPath ==
    [][ \A i \in 1..Len(orders) :
          (call'.self = i) =>
            /\ (transitions[i] = <<>> /\ call'.op = "pay") =>
                  (transitions'[i] = <<"PaidState">> /\ StateOf(i)' = "PaidState")
            /\ (transitions[i] = <<"PaidState">> /\ call'.op = "ship") =>
                  (transitions'[i] = <<"PaidState", "ShippedState">>
                     /\ StateOf(i)' = "ShippedState")
            /\ (transitions[i] = <<"PaidState", "ShippedState">> /\ call'.op = "deliver") =>
                  (transitions'[i] = <<"PaidState", "ShippedState", "DeliveredState">>
                     /\ StateOf(i)' = "DeliveredState")
            /\ (transitions[i] = <<"PaidState", "ShippedState", "DeliveredState">>
                   /\ call'.op = "cancel") =>
                  (transitions'[i] = transitions[i] /\ StateOf(i)' = "DeliveredState"
                     /\ orders'[i]._state = orders[i]._state /\ Rejected(call)')
      ]_vars

\* Order A100 after pay, ship, deliver and a rejected cancel
C12_Witness ==
    /\ call.op = "cancel"
    /\ orders[call.self].order_id = "A100"
    /\ transitions[call.self] = <<"PaidState", "ShippedState", "DeliveredState">>
    /\ StateOf(call.self) = "DeliveredState"
    /\ call.out = <<"[Order A100] Cannot cancel: already delivered">>
\* C13 as stated: every Order has a state object of its own; no state object
\* is shared between two Orders.
C13_OwnInitialState ==
    \A i, j \in 1..Len(orders) :
        i # j => orders[i]._state # orders[j]._state

\* C13 (amended): every Order starts on the one CreatedState object built when
\* the class is defined and shares it with the other Orders until its first
\* transition; no state object is ever modified, and a transition gives the
\* Order a new state object and leaves the other Orders' state alone.
C13_SharedDefaultUntilTransition ==
    [][ /\ \A i \in 1..Len(orders') :
              transitions'[i] = <<>> =>
                  (orders'[i]._state = DefaultState /\ StateOf(i)' = "CreatedState")
        /\ \A k \in DOMAIN heap :
              /\ Len(heap'[k]) >= Len(heap[k])
              /\ SubSeq(heap'[k], 1, Len(heap[k])) = heap[k]
        /\ \A i \in 1..Len(orders) :
              orders'[i]._state # orders[i]._state =>
                  /\ call'.self = i
                  /\ orders'[i]._state = <<i, Len(heap[i]) + 1>>
                  /\ Len(heap'[i]) = Len(heap[i]) + 1
      ]_vars

\* two Orders, the first moved on, the second still on the shared default
C13_Witness ==
    /\ Len(orders) >= 2
    /\ IsOp(call) /\ call.self = 1
    /\ call.pre = DefaultState
    /\ orders[1]._state # DefaultState
    /\ orders[2]._state = DefaultState
    /\ StateOf(2) = "CreatedState"
\* C14: status() is a pure query: it returns the tag of the current state and
\* changes neither the Order's state nor its id nor what is printed; two
\* status() calls in a row return the same string.
C14_StatusPure ==
    [][ call'.op = "status" =>
          /\ orders' = orders
          /\ heap' = heap
          /\ transitions' = transitions
          /\ call'.out = <<>>
          /\ call'.exc = None
          /\ call'.ret = VariantTag[StateOf(call'.self)]
          /\ (call.op = "status" /\ call.self = call'.self) => call'.ret = call.ret
      ]_vars

C14_Witness ==
    /\ call.op = "status"
    /\ call.ret = "SHIPPED"
    /\ call.out = <<>>
    /\ orders[call.self] = [order_id |-> "B1", _state |-> call.pre]
    /\ StateOf(call.self) = "ShippedState"
ExecuteResult ==
    [on_cmd |-> "Light turned ON", off_cmd |-> "Light turned OFF", plain_cmd |-> "done"]

UndoResult ==
    [on_cmd |-> "Light turned OFF", off_cmd |-> "Light turned ON", plain_cmd |-> None]

ImplementsUndo(cmd) == cmd \in {"on_cmd", "off_cmd"}

\* the commands in the invoker's history, oldest first
HistoryCmds(inv) == [k \in 1..Len(inv._history) |-> inv._history[k].cmd]

Live == (1..Len(executions)) \ popped

\* C17: undo_last undoes the most recently executed command still in the
\* history; on an empty history it returns "Nothing to undo" and changes
\* neither the history nor the receiver.
C17_UndoLastLIFO ==
    [][ result'.op = "undo_last" =>
          IF invoker._history = <<>>
          THEN /\ result'.ret = "Nothing to undo"
               /\ invoker' = invoker
               /\ lamp' = lamp
          ELSE \E k \in Live :
                  /\ \A j \in Live : j <= k
                  /\ popped' = popped \cup {k}
                  /\ Len(invoker'._history) = Len(invoker._history) - 1
                  /\ result'.trace = <<<<"undo", executions[k]>>>>
                  /\ ImplementsUndo(executions[k])
                  /\ result'.ret = UndoResult[executions[k]]
                  /\ lamp'._is_on = (executions[k] = "off_cmd")
      ]_vars

\* C18: set_command executes the command at once and records it in the
\* history only if the command implements undo; a command that does not is
\* executed but not recorded.
C18_RecordsOnlyUndoable ==
    [][ result'.op = "set_command" =>
          /\ result'.trace = <<<<"execute", result'.arg>>>>
          /\ result'.ret = ExecuteResult[result'.arg]
          /\ HistoryCmds(invoker') =
                IF ImplementsUndo(result'.arg)
                THEN Append(HistoryCmds(invoker), result'.arg)
                ELSE HistoryCmds(invoker)
      ]_vars

\* the receiver after the calls in trace, none of which raised, from light l
RECURSIVE LampAfter(_, _)
LampAfter(trace, l) ==
    IF trace = <<>> THEN l
    ELSE LET c == trace[Len(trace)]
         IN IF c \in {<<"execute", "on_cmd">>, <<"undo", "off_cmd">>}
            THEN [_is_on |-> TRUE]
            ELSE IF c \in {<<"execute", "off_cmd">>, <<"undo", "on_cmd">>}
                 THEN [_is_on |-> FALSE]
                 ELSE LampAfter(SubSeq(trace, 1, Len(trace) - 1), l)

\* MacroCommand.execute runs the commands in the order added and returns their
\* results in that order
MacroExecuteInOrder ==
    result'.op = "execute" =>
        LET cmds == macro._commands
        IN /\ result'.trace = [k \in 1..Len(cmds) |-> <<"execute", cmds[k]>>]
           /\ result'.ret = [k \in 1..Len(cmds) |-> ExecuteResult[cmds[k]]]
           /\ result'.exc = None
           /\ lamp' = LampAfter(result'.trace, lamp)
           /\ macro' = macro

\* the commands of the macro whose class does not implement undo
Irreversible(cmds) == {k \in 1..Len(cmds) : ~ImplementsUndo(cmds[k])}

C19_DemoWitness ==
    /\ result.op = "undo"
    /\ result.arg = <<"on_cmd", "off_cmd">>
    /\ result.trace = <<<<"undo", "off_cmd">>, <<"undo", "on_cmd">>>>
    /\ result.ret = <<"Light turned ON", "Light turned OFF">>
    /\ lamp._is_on = FALSE

\* ------------------------------------------------- observer pattern claims
\* position in `events` of the last detach of o, 0 if there is none
LastDetach(ev, o) ==
    LET ds == {i \in 1..Len(ev) : ev[i] = <<"detach", o>>}
    IN IF ds = {} THEN 0 ELSE CHOOSE i \in ds : \A j \in ds : j <= i

\* positions of the attach calls that attached an observer which has not been
\* detached since: for each observer the first attach after its last detach
Attaching(ev) ==
    {i \in 1..Len(ev) :
        /\ ev[i][1] = "attach"
        /\ i > LastDetach(ev, ev[i][2])
        /\ \A j \in (LastDetach(ev, ev[i][2]) + 1)..(i - 1) : ev[j] # ev[i]}

\* the observers currently attached
Attached(ev) == {ev[i][2] : i \in Attaching(ev)}

\* the observers currently attached, in attach order
AttachedInOrder(ev) ==
    LET idx == Attaching(ev)
        nth(k) == CHOOSE i \in idx : Cardinality({j \in idx : j < i}) = k - 1
    IN [k \in 1..Cardinality(idx) |-> ev[nth(k)][2]]

\* C20: after any sequence of attach and detach calls, set_price(p) stores p
\* and calls update exactly once on each observer currently attached, in
\* attach order and with the new price, and on no other observer; attaching
\* an attached observer or detaching one that is not attached changes nothing.
C20_NotifyAttachedInOrder ==
    [][ /\ notice'.op = "set_price" =>
              LET exp == AttachedInOrder(events)
                  info == [symbol |-> ticker.symbol, price |-> notice'.price]
              IN /\ ticker'._price = notice'.price
                 /\ notice'.updates = [k \in 1..Len(exp) |-> [obs |-> exp[k], info |-> info]]
                 /\ ticker'._observers = ticker._observers
                 /\ ticker'.symbol = ticker.symbol
        /\ (notice'.op = "attach" /\ events' = Append(events, <<"attach", notice'.obs>>)
              /\ notice'.obs \in Attached(events)) => ticker' = ticker
        /\ (notice'.op = "detach" /\ events' = Append(events, <<"detach", notice'.obs>>)
              /\ notice'.obs \notin Attached(events)) => ticker' = ticker
      ]_vars

\* alert attached first, then detached and attached again after trading:
\* set_price(160) calls trading, then alert
C20_Witness ==
    /\ notice.op = "set_price"
    /\ notice.price = 160
    /\ events = << <<"attach", "alert">>, <<"attach", "trading">>,
                   <<"detach", "alert">>, <<"attach", "alert">> >>
    /\ notice.updates =
          << [obs |-> "trading", info |-> [symbol |-> "ACME", price |-> 160]],
             [obs |-> "alert", info |-> [symbol |-> "ACME", price |-> 160]] >>
    /\ ticker._price = 160
    /\ Len(notice.out) = 2

\* --------------------------------------------------------- singleton claims
\* the callers whose call of fn has returned an object
Returned(fn) ==
    {t \in 1..MaxCallers :
        callers[t].pc = "done" /\ callers[t].fn = fn /\ callers[t].exc = None}

\* the objects of class cls constructed so far
InstancesOf(cls) == {r \in 1..MaxCallers : objects[r].cls = cls}

\* C21: Logger is a lazy, thread-safe singleton: under any interleaving of
\* concurrent Logger.instance() calls the Logger constructor runs at most
\* once, and every call returns that same object; no Logger exists before
\* the first call.
C21_LoggerSingleton ==
    /\ Cardinality(InstancesOf("Logger")) <= 1
    /\ \A r \in InstancesOf("Logger") : objects[r].inits = 1
    /\ \A t \in Returned("instance") :
          /\ callers[t].ret \in InstancesOf("Logger")
          /\ callers[t].ret = Logger._instance
    /\ \A t, u \in Returned("instance") : callers[t].ret = callers[u].ret
    /\ (\A t \in 1..MaxCallers : callers[t].fn # "instance") =>
          /\ Logger._instance = NoRef
          /\ InstancesOf("Logger") = {}

\* two calls that both found no instance at the first check and both went
\* through the lock have returned the one Logger
C21_Witness ==
    /\ Returned("instance") = {1, 2}
    /\ callers[1].locked /\ callers[2].locked
    /\ callers[1].args # callers[2].args
    /\ callers[1].ret = callers[2].ret
    /\ InstancesOf("Logger") = {callers[1].ret}

\* the arguments fit the signature of cls.__init__
Fits(cls, args) == Len(args) = (IF cls = "Cache" THEN 0 ELSE 1)

\* C22: for each class using SingletonMeta, under any interleaving of
\* concurrent constructor calls at most one instance is created and every
\* call that returns returns it, so a value stored through one reference is
\* read through any other; two different classes get different instances.
\* A call raises instead of returning only when its arguments do not fit the
\* constructor, and then it creates nothing.
C22_MetaSingleton ==
    /\ \A c \in MetaClasses :
          /\ Cardinality(InstancesOf(c)) <= 1
          /\ \A r \in InstancesOf(c) : objects[r].inits = 1
    /\ \A t \in Returned("__call__") :
          /\ callers[t].ret \in InstancesOf(callers[t].cls)
          /\ callers[t].ret = SingletonMeta._instances[callers[t].cls]
          /\ callers[t].cls = "Cache" =>
                \A k \in Keys : get(objects[callers[t].ret], k, None) = written[k]
    /\ \A t, u \in Returned("__call__") :
          (callers[t].cls = callers[u].cls) <=> (callers[t].ret = callers[u].ret)
    /\ \A t \in 1..MaxCallers :
          (callers[t].pc = "done" /\ callers[t].fn = "__call__" /\ callers[t].exc # None) =>
              /\ callers[t].exc = "TypeError"
              /\ ~Fits(callers[t].cls, callers[t].args)
              /\ callers[t].ret = NoRef
              /\ objects[t] = NoObject

\* two calls of Cache() that both went through the lock hold the one Cache;
\* the value set through one reference has been read through caller 2's
C22_Witness ==
    /\ Returned("__call__") = {1, 2}
    /\ callers[1].cls = "Cache" /\ callers[2].cls = "Cache"
    /\ callers[1].locked /\ callers[2].locked
    /\ callers[1].ret = callers[2].ret
    /\ written["x"] = "42"
    /\ callers[2].got = "42"
    /\ callers[1].got = None

\* Cache() and Settings("dev") have returned two different objects
C22_TwoClassesWitness ==
    /\ Returned("__call__") = {1, 2}
    /\ callers[1].cls = "Cache" /\ callers[2].cls = "Settings"
    /\ callers[1].ret # callers[2].ret
    /\ objects[callers[2].ret].env = "dev"

\* C23: constructor arguments are used only on first creation: once
\* Logger.instance(prefix=p1) has created the Logger, a later
\* Logger.instance(prefix=p2) returns it with prefix still p1, and a later
\* call of a SingletonMeta class with different arguments does not run
\* __init__ again and leaves the instance's state unchanged.
C23_ArgsOnlyOnFirstCreation ==
    [][ /\ \A r \in InstancesOf("Logger") : objects[r].prefix = callers[r].args[1]
        /\ \A r \in InstancesOf("Settings") : objects[r].env = callers[r].args[1]
        /\ Logger._instance # NoRef =>
              /\ Logger'._instance = Logger._instance
              /\ objects'[Logger._instance] = objects[Logger._instance]
        /\ \A c \in MetaClasses :
              LET r == SingletonMeta._instances[c]
              IN r # NoRef =>
                    /\ SingletonMeta'._instances[c] = r
                    /\ objects'[r].inits = objects[r].inits
                    /\ objects'[r].env = objects[r].env
                    /\ objects'[r]._store # objects[r]._store => written' # written
      ]_vars

\* the demo: Logger.instance(prefix="[L1] ") has returned, and the later
\* Logger.instance(prefix="[L2] "), which found the instance at the first
\* check, has returned the same Logger, its prefix still "[L1] "
C23_Witness ==
    /\ Returned("instance") = {1, 2}
    /\ callers[1].args = <<"[L1] ">>
    /\ callers[2].args = <<"[L2] ">>
    /\ ~callers[2].locked
    /\ callers[2].ret = callers[1].ret
    /\ objects[callers[2].ret].prefix = "[L1] "
    /\ objects[callers[2].ret].inits = 1

\* Settings("dev") has returned, and the later Settings("prod") has returned
\* the same object, its env still "dev"
C23_MetaWitness ==
    /\ Returned("__call__") = {1, 2}
    /\ callers[1].cls = "Settings" /\ callers[1].args = <<"dev">>
    /\ callers[2].cls = "Settings" /\ callers[2].args = <<"prod">>
    /\ ~callers[2].locked
    /\ callers[2].ret = callers[1].ret
    /\ objects[callers[2].ret].env = "dev"
    /\ objects[callers[2].ret].inits = 1

\* Cache() has returned, and the later Cache("dev"), whose argument the
\* constructor would reject, has returned the same Cache without an error
C23_IgnoredArgsWitness ==
    /\ Returned("__call__") = {1, 2}
    /\ callers[1].cls = "Cache" /\ callers[1].args = <<>>
    /\ callers[2].cls = "Cache" /\ callers[2].args = <<"dev">>
    /\ callers[2].ret = callers[1].ret
====
